---- MODULE Spec2Model ----
(***************************************************************************)
(* DecoTengu numeric primitives (decotengu/ft.py) and the ZH-L16-GF        *)
(* decompression model with its step validator (decotengu/model.py).       *)
(*                                                                         *)
(* Each function of the source is a small state machine: its arguments are *)
(* drawn in the initial state, its loop iterations and its exit are        *)
(* actions, and its outcome (a returned value or a raised exception) is    *)
(* kept in a result record.                                                *)
(***************************************************************************)
EXTENDS Integers, Sequences, FiniteSets, TLC

\* The largest n bisect_find is called with.
MaxN == 6

\* seq is called with start and stop in -MaxAbs..MaxAbs and step in -MaxStep..MaxStep.
MaxAbs == 4
MaxStep == 3

\* recurse_while works on the values 0..MaxVal and is followed for MaxCalls calls of f.
MaxVal == 2
MaxCalls == 4

\* The planner is followed until it has produced MaxData values of Data.
MaxData == 3

\* The validator is sent at most MaxSteps steps.
MaxSteps == 3

\* A variable that holds None or a value: None is the empty tuple, a value v
\* the one-element tuple.
None == <<>>
Some(v) == <<v>>

\* Outcome of a call: a returned value or a raised exception.
Return(v) == [kind |-> "return", value |-> v]
Raise(e) == [kind |-> "raise", exc |-> e]
Pending == [kind |-> "pending"]

VARIABLES
    debug,      \* __debug__: FALSE when the interpreter runs with -O (asserts stripped)
    n, f,       \* bisect_find: arguments (f as its truth table on 0..n-1)
    lo, hi,     \* bisect_find: the search interval [lo, hi)
    bpc,        \* bisect_find: "loop" at the while test, "done" after return/raise
    iters,      \* bisect_find: one record per loop iteration (lo, k, hi, value of f(k))
    post,       \* bisect_find: the indices f is called with after the loop
    bres,       \* bisect_find: outcome
    start, stop, step,  \* seq: arguments
    spc,        \* seq: "call" before the call, "iter" while the generator is consumed, "done"
    count,      \* seq: the generator's range(count)
    yielded,    \* seq: the values the generator has produced so far, in order
    sres,       \* seq: outcome of the call
    predicate, rf,  \* recurse_while: arguments predicate and f, as tables on the values
    rarg,       \* recurse_while: the argument start as passed by the caller
    rstart,     \* recurse_while: the local start, reassigned by the loop
    x,          \* recurse_while: the local x
    rpc,        \* recurse_while: "loop" at the while test, "done" after return
    fcalls,     \* recurse_while: the arguments f has been called with, in order
    rres,       \* recurse_while: outcome
    variant,    \* model: "B" for ZH_L16B_GF, "C" for ZH_L16C_GF
    gf_low, gf_high,  \* model: the gradient factors, in percent
    store,      \* model: every Data produced so far, with where it came from
    mres,       \* model: outcome of the last init/load call
    call,       \* a single call of load, gf_limit or pressure_limit: its arguments
    cpc,        \* a single call: "call" before it, "done" after it
    cres,       \* a single call: outcome
    vpc,        \* validator: "created", "suspended" at its yield, or "finished"
    verdicts    \* validator: one record per step sent (pressure, limit, outcome)

bisectVars == <<n, f, lo, hi, bpc, iters, post, bres>>

seqVars == <<start, stop, step, spc, count, yielded, sres>>

recurseVars == <<predicate, rf, rarg, rstart, x, rpc, fcalls, rres>>

modelVars == <<variant, gf_low, gf_high, store, mres>>

callVars == <<call, cpc, cres>>

validatorVars == <<vpc, verdicts>>

vars == <<debug, bisectVars, seqVars, recurseVars, modelVars, callVars, validatorVars>>

\* The parts of the state a function does not touch.
BisectIdle ==
    /\ n = 0 /\ f = <<>> /\ lo = 0 /\ hi = 0 /\ bpc = "idle"
    /\ iters = <<>> /\ post = <<>> /\ bres = Pending

SeqIdle ==
    /\ start = 0 /\ stop = 0 /\ step = 1 /\ spc = "idle"
    /\ count = 0 /\ yielded = <<>> /\ sres = Pending

RecurseIdle ==
    /\ predicate = <<>> /\ rf = <<>> /\ rarg = 0 /\ rstart = 0 /\ x = None
    /\ rpc = "idle" /\ fcalls = <<>> /\ rres = Pending

ModelIdle ==
    /\ variant = "B" /\ gf_low = 30 /\ gf_high = 85
    /\ store = <<>> /\ mres = Pending

CallIdle == call = <<>> /\ cpc = "idle" /\ cres = Pending

ValidatorIdle == vpc = "idle" /\ verdicts = <<>>

----------------------------------------------------------------------------
(* ft.py: bisect_find *)

\* f(k, *args, **kw): the predicate's value.  The predicate is defined on
\* 0..n-1; a call outside that range is recorded by the caller and reads FALSE.
CallF(k) == IF k \in DOMAIN f THEN f[k] ELSE FALSE

\* k = (lo + hi) // 2
Mid(l, h) == (l + h) \div 2

\* A search that keeps the midpoint in the interval after a true answer.
LoAfterTrue_Keep(k) == k

\* lo = k + 1
LoAfterTrue(k) == k + 1

\* A search that drops the midpoint's left neighbour after a false answer.
HiAfterFalse_Skip(k) == k - 1

\* hi = k
HiAfterFalse(k) == k

\* A return of hi, the first false index, in place of hi - 1.
BisectReturn_OffByOne(nn, l, h) ==
    IF h = 0 THEN -1
    ELSE IF l = nn THEN nn
    ELSE h

\* The value returned after the loop when no assertion fails.
BisectReturn(nn, l, h) ==
    IF h = 0 THEN -1
    ELSE IF l = nn THEN nn
    ELSE h - 1

BisectInit ==
    /\ debug \in BOOLEAN
    /\ n \in 0..MaxN
    /\ f \in [0..(n - 1) -> BOOLEAN]
    /\ lo = 0
    /\ hi = n
    /\ bpc = "loop"
    /\ iters = <<>>
    /\ post = <<>>
    /\ bres = Pending
    /\ SeqIdle
    /\ RecurseIdle
    /\ ModelIdle
    /\ CallIdle
    /\ ValidatorIdle

\* One iteration of `while lo < hi`.
BisectIterate ==
    /\ bpc = "loop"
    /\ lo < hi
    /\ LET k == Mid(lo, hi)
           v == CallF(k)
       IN  IF debug /\ ~(lo <= k /\ k <= hi)
           THEN /\ bpc' = "done"
                /\ bres' = Raise("AssertionError")
                /\ UNCHANGED <<lo, hi, iters>>
           ELSE /\ iters' = Append(iters, [lo |-> lo, k |-> k, hi |-> hi, v |-> v])
                /\ lo' = IF v THEN LoAfterTrue(k) ELSE lo
                /\ hi' = IF v THEN hi ELSE HiAfterFalse(k)
                /\ UNCHANGED <<bpc, bres>>
    /\ UNCHANGED <<n, f, post, debug, seqVars, recurseVars, modelVars, callVars, validatorVars>>

\* The code after the loop: the two saturating returns, the assertions, the
\* final return.
BisectExit ==
    /\ bpc = "loop"
    /\ ~(lo < hi)
    /\ bpc' = "done"
    /\ IF hi = 0 \/ lo = n
       THEN /\ bres' = Return(BisectReturn(n, lo, hi))
            /\ post' = post
       ELSE IF ~debug
       THEN /\ bres' = Return(BisectReturn(n, lo, hi))
            /\ post' = post
       ELSE IF ~(hi > 0)
       THEN /\ bres' = Raise("AssertionError")
            /\ post' = post
       ELSE IF ~CallF(hi - 1)
       THEN /\ bres' = Raise("AssertionError")
            /\ post' = <<hi - 1>>
       ELSE IF CallF(hi)
       THEN /\ bres' = Raise("AssertionError")
            /\ post' = <<hi - 1, hi>>
       ELSE /\ bres' = Return(BisectReturn(n, lo, hi))
            /\ post' = <<hi - 1, hi>>
    /\ UNCHANGED <<n, f, lo, hi, iters, debug, seqVars, recurseVars, modelVars, callVars, validatorVars>>

BisectNext == BisectIterate \/ BisectExit

BisectSpec == BisectInit /\ [][BisectNext]_vars

\* The loop is the only code of bisect_find: once called, it runs.
FairBisectSpec == BisectSpec /\ WF_vars(BisectNext)

----------------------------------------------------------------------------
(* Claims about bisect_find *)

\* f is true on [0, m) and false on [m, n).
IsStep(m) == \A j \in 0..(n - 1) : f[j] = (j < m)

\* floor(log2(x)) for x >= 1.
RECURSIVE FloorLog2(_)
FloorLog2(a) == IF a <= 1 THEN 0 ELSE 1 + FloorLog2(a \div 2)

C8_Docstring ==
    (bpc = "done" /\ n >= 1) =>
        /\ (\A j \in 0..(n - 1) : f[j]) => bres = Raise("ValueError")
        /\ bres.kind = "return" => bres.value \in 0..(n - 1)

\* C9: for every predicate, monotone or not, no assertion of bisect_find
\* fails: every iteration has lo <= k < hi <= n, f is called only inside
\* 0..n-1, and when the loop ends with 0 < hi < n the loop has seen f(hi-1)
\* true and f(hi) false, and hi-1 is returned.
C9_AssertionsHold ==
    /\ bres # Raise("AssertionError")
    /\ \A i \in DOMAIN iters :
          /\ iters[i].lo <= iters[i].k
          /\ iters[i].k < iters[i].hi
          /\ iters[i].hi <= n
          /\ iters[i].k \in 0..(n - 1)
    /\ \A i \in DOMAIN post : post[i] \in 0..(n - 1)
    /\ (bpc = "done" /\ 0 < hi /\ hi < n) =>
          /\ \E i \in DOMAIN iters : iters[i].k = hi - 1 /\ iters[i].v
          /\ \E i \in DOMAIN iters : iters[i].k = hi /\ ~iters[i].v
          /\ f[hi - 1] /\ ~f[hi]
          /\ bres = Return(hi - 1)

\* A predicate that is not monotone, searched with assertions enabled, ending
\* strictly inside the range.
C9_Witness ==
    /\ bpc = "done"
    /\ debug
    /\ n = 5
    /\ f = [j \in 0..4 |-> j = 2]
    /\ post = <<hi - 1, hi>>
    /\ bres.kind = "return"

\* C10: the loop ends with lo = hi, hi - lo shrinks in every iteration, and
\* the loop calls f at most floor(log2(n)) + 1 times (never for n = 0).
C10_Terminates ==
    /\ [][BisectIterate => (hi' - lo' < hi - lo)]_vars
    /\ [](Len(iters) <= IF n = 0 THEN 0 ELSE FloorLog2(n) + 1)
    /\ [](bpc = "done" => lo = hi)
    /\ <>(bpc = "done")

\* The bound is met: n = 4 searched in floor(log2(4)) + 1 = 3 calls.
C10_Witness ==
    /\ bpc = "done"
    /\ n = 4
    /\ Len(iters) = 3
    /\ lo = hi

----------------------------------------------------------------------------
(* ft.py: seq *)

Abs(a) == IF a < 0 THEN -a ELSE a

\* int(a / b) for b # 0: the quotient truncated toward zero.  (The float
\* quotient a / b is exact to the integer part for the magnitudes used here.)
IntTrueDiv(a, b) ==
    IF (a < 0) = (b < 0) THEN Abs(a) \div Abs(b) ELSE -(Abs(a) \div Abs(b))

\* start > stop and step > 0 or start < stop and step < 0
WrongSign(a, b, s) == (a > b /\ s > 0) \/ (a < b /\ s < 0)

\* A count that leaves out the first element.
SeqCount_NoPlusOne(a, b, s) == IntTrueDiv(b - a, s)

\* count = int((stop - start) / step) + 1
SeqCount(a, b, s) == IntTrueDiv(b - a, s) + 1

SeqInit ==
    /\ debug \in BOOLEAN
    /\ start \in (-MaxAbs)..MaxAbs
    /\ stop \in (-MaxAbs)..MaxAbs
    /\ step \in (-MaxStep)..MaxStep
    /\ spc = "call"
    /\ count = 0
    /\ yielded = <<>>
    /\ sres = Pending
    /\ BisectIdle
    /\ RecurseIdle
    /\ ModelIdle
    /\ CallIdle
    /\ ValidatorIdle

\* The call seq(start, stop, step): the sign test, the count, the generator.
SeqCall ==
    /\ spc = "call"
    /\ IF WrongSign(start, stop, step)
       THEN /\ sres' = Raise("ValueError")
            /\ spc' = "done"
            /\ count' = count
       ELSE IF step = 0
       THEN /\ sres' = Raise("ZeroDivisionError")
            /\ spc' = "done"
            /\ count' = count
       ELSE /\ sres' = Return("generator")
            /\ spc' = "iter"
            /\ count' = SeqCount(start, stop, step)
    /\ UNCHANGED <<start, stop, step, yielded, debug, bisectVars, recurseVars, modelVars, callVars, validatorVars>>

\* next() on the generator: start + k * step for the next k of range(count).
SeqYield ==
    /\ spc = "iter"
    /\ Len(yielded) < count
    /\ yielded' = Append(yielded, start + Len(yielded) * step)
    /\ UNCHANGED <<start, stop, step, spc, count, sres, debug, bisectVars, recurseVars, modelVars, callVars, validatorVars>>

\* next() on the generator once range(count) is used up: StopIteration.
SeqExhaust ==
    /\ spc = "iter"
    /\ ~(Len(yielded) < count)
    /\ spc' = "done"
    /\ UNCHANGED <<start, stop, step, count, yielded, sres, debug, bisectVars, recurseVars, modelVars, callVars, validatorVars>>

SeqNext == SeqCall \/ SeqYield \/ SeqExhaust

SeqSpec == SeqInit /\ [][SeqNext]_vars

----------------------------------------------------------------------------
(* Claims about seq *)

\* floor(a / b) for b # 0.
FloorDiv(a, b) == IF b > 0 THEN a \div b ELSE (-a) \div (-b)

C5_BadStep ==
    (spc = "done" /\ (WrongSign(start, stop, step) \/ step = 0)) =>
        /\ sres = Raise("ValueError")
        /\ yielded = <<>>

----------------------------------------------------------------------------
(* ft.py: recurse_while *)

\* A return of the value the predicate rejected.
RecurseReturn_Rejected(xx, st) == st

\* if x is None: return start / return x
RecurseReturn(xx, st) == IF xx = None THEN st ELSE xx[1]

RecurseInit ==
    /\ debug \in BOOLEAN
    /\ predicate \in [0..MaxVal -> BOOLEAN]
    /\ rf \in [0..MaxVal -> 0..MaxVal]
    /\ rarg \in 0..MaxVal
    /\ rstart = rarg
    /\ x = None
    /\ rpc = "loop"
    /\ fcalls = <<>>
    /\ rres = Pending
    /\ BisectIdle
    /\ SeqIdle
    /\ ModelIdle
    /\ CallIdle
    /\ ValidatorIdle

\* One iteration of `while predicate(start)`.
RecurseIterate ==
    /\ rpc = "loop"
    /\ Len(fcalls) < MaxCalls
    /\ predicate[rstart]
    /\ x' = Some(rstart)
    /\ rstart' = rf[rstart]
    /\ fcalls' = Append(fcalls, rstart)
    /\ UNCHANGED <<predicate, rf, rarg, rpc, rres, debug, bisectVars, seqVars, modelVars, callVars, validatorVars>>

\* The predicate is false: the code after the loop.
RecurseExit ==
    /\ rpc = "loop"
    /\ ~predicate[rstart]
    /\ rres' = Return(RecurseReturn(x, rstart))
    /\ rpc' = "done"
    /\ UNCHANGED <<predicate, rf, rarg, rstart, x, fcalls, debug, bisectVars, seqVars, modelVars, callVars, validatorVars>>

RecurseNext == RecurseIterate \/ RecurseExit

RecurseSpec == RecurseInit /\ [][RecurseNext]_vars

----------------------------------------------------------------------------
(* Claims about recurse_while *)

\* The chain start, f(start), f(f(start)), ...
RECURSIVE ChainAt(_)
ChainAt(i) == IF i = 0 THEN rarg ELSE rf[ChainAt(i - 1)]

\* The number of leading chain elements on which the predicate holds.
RECURSIVE TruePrefix(_)
TruePrefix(i) ==
    IF i < MaxCalls /\ predicate[ChainAt(i)] THEN TruePrefix(i + 1) ELSE i

----------------------------------------------------------------------------
(* model.py: the equations, in fixed point *)

(***************************************************************************)
(* The source computes in floating point.  Here pressures are integers in  *)
(* millibar, pressure rates in millibar per minute, times in seconds (at   *)
(* most 3000), gradient factors in percent, gas fractions and the Buhlmann *)
(* coefficients in 1/10000, half-lives in tenths of a minute, 1/k in       *)
(* 1/1000 minute and exp(-k*t) in 1/1000000; every quotient is rounded     *)
(* down.  The formulas keep the shape of the source; their values agree    *)
(* with the source's to a few millibar.                                    *)
(***************************************************************************)

\* WATER_VAPOUR_PRESSURE_DEFAULT = 0.0627 bar, to the millibar.
WATER_VAPOUR_PRESSURE_DEFAULT == 63

NUM_COMPARTMENTS == 16

N2_A ==
    [B |-> <<11696, 10000, 8618, 7562, 6667, 5600, 4947, 4500,
             4187, 3798, 3497, 3223, 2850, 2737, 2523, 2327>>,
     C |-> <<12599, 10000, 8618, 7562, 6200, 5043, 4410, 4000,
             3750, 3500, 3295, 3065, 2835, 2610, 2480, 2327>>]

N2_B ==
    [B |-> <<5578, 6514, 7222, 7825, 8126, 8434, 8693, 8910,
             9092, 9222, 9319, 9403, 9477, 9544, 9602, 9653>>,
     C |-> <<5050, 6514, 7222, 7825, 8126, 8434, 8693, 8910,
             9092, 9222, 9319, 9403, 9477, 9544, 9602, 9653>>]

N2_HALF_LIFE ==
    [B |-> <<50, 80, 125, 185, 270, 383, 543, 770, 1090,
             1460, 1870, 2390, 3050, 3900, 4980, 6350>>,
     C |-> <<40, 80, 125, 185, 270, 383, 543, 770, 1090,
             1460, 1870, 2390, 3050, 3900, 4980, 6350>>]

\* Data = namedtuple('Data', 'tissues gf')
Data(tissues, gf) == [tissues |-> tissues, gf |-> gf]

\* a * b for b in 1/1000000, without leaving 32 bits.
Mul6(a, b) == ((a \div 1000) * b) \div 1000 + ((a % 1000) * b) \div 1000000

\* math.log(2) and 1 / math.log(2), in 1/1000000.
Log2 == 693147
InvLog2 == 1442695

RECURSIVE Pow2(_)
Pow2(e) == IF e <= 0 THEN 1 ELSE 2 * Pow2(e - 1)

\* math.exp(-y) for y in 1/1000000, result in 1/1000000: exp(-y) is
\* 2^-q * exp(-r) with y = q*log(2) + r and 0 <= r < log(2), and exp(-r) is
\* its series to r^8.
ExpNeg(y) ==
    LET q == y \div Log2
        r == y % Log2
        t2 == Mul6(r, r) \div 2
        t3 == Mul6(t2, r) \div 3
        t4 == Mul6(t3, r) \div 4
        t5 == Mul6(t4, r) \div 5
        t6 == Mul6(t5, r) \div 6
        t7 == Mul6(t6, r) \div 7
        t8 == Mul6(t7, r) \div 8
        series == 1000000 - r + t2 - t3 + t4 - t5 + t6 - t7 + t8
    IN  IF q > 30 THEN 0
        ELSE IF q < 0 THEN series * Pow2(-q)
        ELSE series \div Pow2(q)

\* eq_schreiner without its assertion on time (the caller's branch in
\* LoadOutcome): gas in 1/10000, half_life in tenths of a minute.
eq_schreiner(abs_p, time, gas, rate, pressure, half_life) ==
    LET wvp == WATER_VAPOUR_PRESSURE_DEFAULT
        palv == (gas * (abs_p - wvp)) \div 10000
        \* t = time / 60.0, in 1/1000 minute
        t == (time * 1000) \div 60
        \* k = math.log(2) / half_life, kept as 1 / k in 1/1000 minute
        invk == Mul6(half_life * 100, InvLog2)
        \* k * t, in 1/1000000
        kt == (time * Log2) \div (6 * half_life)
        r == (gas * rate) \div 10000
    IN  palv + (r * (t - invk)) \div 1000
             - Mul6(palv - pressure - (r * invk) \div 1000, ExpNeg(kt))

\* eq_gf_limit, for p # 0 (the division by p is the caller's branch in
\* GfLimitOutcome): gf in percent, the coefficients in 1/10000.
eq_gf_limit(gf, pn2, phe, n2_a_limit, n2_b_limit) ==
    LET p == pn2 + phe
        a == (n2_a_limit * pn2 + 0 * phe) \div p
        b == (n2_b_limit * pn2 + 0 * phe) \div p
        \* gf / b + 1.0 - gf, in 1/10000
        d == (gf * 1000000) \div b + 10000 - 100 * gf
    IN  ((p - (a * gf) \div 1000) * 10000) \div d

\* assert gf > 0 and gf <= 1.5
GfInRange(gf) == gf > 0 /\ gf <= 150

----------------------------------------------------------------------------
(* model.py: TissueCalculator and ZH_L16_GF *)

\* TissueCalculator.load_tissue: gas is the mix's n2, in 1/100 percent.
load_tissue(abs_p, time, gas, rate, pressure, tissue_no) ==
    LET hl == N2_HALF_LIFE[variant][tissue_no]
    IN  eq_schreiner(abs_p, time, gas, rate, pressure, hl)

\* ZH_L16_GF.init
InitData(surface_pressure) ==
    LET p == surface_pressure - WATER_VAPOUR_PRESSURE_DEFAULT
    IN  Data([j \in 1..NUM_COMPARTMENTS |-> (7902 * p) \div 10000], gf_low)

\* A load that stamps the model's gf_low on its result.
LoadData_GfLow(abs_p, time, gas, rate, data) ==
    Data([j \in DOMAIN data.tissues |->
              load_tissue(abs_p, time, gas, rate, data.tissues[j], j)],
         gf_low)

\* ZH_L16_GF.load when no call of load_tissue fails: one new tissue pressure
\* per entry of data.tissues, and data's gf.
LoadData(abs_p, time, gas, rate, data) ==
    Data([j \in DOMAIN data.tissues |->
              load_tissue(abs_p, time, gas, rate, data.tissues[j], j)],
         data.gf)

\* ZH_L16_GF.load: the generator calls load_tissue for each entry in turn;
\* the first call asserts time > 0, the 17th indexes past the half-life table.
LoadOutcome(abs_p, time, gas, rate, data) ==
    IF data.tissues = <<>>
    THEN Return(Data(<<>>, data.gf))
    ELSE IF debug /\ ~(time > 0)
    THEN Raise("AssertionError")
    ELSE IF Len(data.tissues) > NUM_COMPARTMENTS
    THEN Raise("IndexError")
    ELSE Return(LoadData(abs_p, time, gas, rate, data))

\* ZH_L16_GF.gf_limit: gf is None or Some(percent).  zip() stops at the
\* shortest of data.tissues and the two coefficient tables.
GfLimitOutcome(gf, data) ==
    LET g == IF gf = None THEN gf_low ELSE gf[1]
        m == IF Len(data.tissues) < NUM_COMPARTMENTS
             THEN Len(data.tissues) ELSE NUM_COMPARTMENTS
    IN  IF debug /\ ~GfInRange(g)
        THEN Raise("AssertionError")
        \* p = pn2 + phe with phe = 0, then a division by p
        ELSE IF \E j \in 1..m : data.tissues[j] + 0 = 0
        THEN Raise("ZeroDivisionError")
        ELSE Return([j \in 1..m |->
                        eq_gf_limit(g, data.tissues[j], 0,
                                    N2_A[variant][j], N2_B[variant][j])])

\* max() of a non-empty tuple.
Max(t) == CHOOSE v \in {t[j] : j \in DOMAIN t} : \A j \in DOMAIN t : t[j] <= v

\* ZH_L16_GF.pressure_limit: max(self.gf_limit(gf, data)).
PressureLimitOutcome(data, gf) ==
    LET limits == GfLimitOutcome(gf, data)
    IN  IF limits.kind = "raise" THEN limits
        ELSE IF limits.value = <<>> THEN Raise("ValueError")
        ELSE Return(Max(limits.value))

----------------------------------------------------------------------------
(* The planner's use of the model: init, then loads of any Data produced so *)
(* far, with the gradient factor advanced in between                        *)

\* The surface pressure of a dive, in millibar.
SurfacePressures == {1013}

\* The segments loaded: a descent, a bottom time, an ascent, and a segment of
\* no duration.
Segments ==
    { [abs_p |-> 1013, time |-> 150, gas |-> 7902, rate |-> 1800],
      [abs_p |-> 4000, time |-> 1200, gas |-> 7902, rate |-> 0],
      [abs_p |-> 4000, time |-> 180, gas |-> 7902, rate |-> -1000],
      [abs_p |-> 4000, time |-> 0, gas |-> 7902, rate |-> 0] }

ModelInit ==
    /\ debug \in BOOLEAN
    /\ variant \in {"B", "C"}
    /\ gf_low = 30
    /\ gf_high = 85
    /\ store = <<>>
    /\ mres = Pending
    /\ BisectIdle
    /\ SeqIdle
    /\ RecurseIdle
    /\ CallIdle
    /\ ValidatorIdle

\* data = model.init(surface_pressure), at the start of the dive.
CallInit ==
    /\ store = <<>>
    /\ \E sp \in SurfacePressures :
          LET d == InitData(sp)
          IN  /\ store' = <<[data |-> d, from |-> 0, op |-> "init"]>>
              /\ mres' = Return(d)
    /\ UNCHANGED <<variant, gf_low, gf_high, debug, bisectVars, seqVars,
                   recurseVars, callVars, validatorVars>>

\* model.load(abs_p, time, gas, rate, data) on any Data produced so far.
CallLoad ==
    /\ store # <<>>
    /\ Len(store) < MaxData
    /\ \E i \in DOMAIN store, seg \in Segments :
          LET out == LoadOutcome(seg.abs_p, seg.time, seg.gas, seg.rate,
                                 store[i].data)
          IN  /\ mres' = out
              /\ store' = IF out.kind = "return"
                          THEN Append(store, [data |-> out.value, from |-> i,
                                              op |-> "load"])
                          ELSE store
    /\ UNCHANGED <<variant, gf_low, gf_high, debug, bisectVars, seqVars,
                   recurseVars, callVars, validatorVars>>

\* The planner advances the gradient factor of a Data it holds to gf_high:
\* a new Data with the same tissues.
PlannerAdvanceGf ==
    /\ store # <<>>
    /\ Len(store) < MaxData
    /\ \E i \in DOMAIN store :
          /\ store[i].data.gf # gf_high
          /\ store' = Append(store, [data |-> Data(store[i].data.tissues, gf_high),
                                     from |-> i, op |-> "replace"])
    /\ UNCHANGED <<variant, gf_low, gf_high, mres, debug, bisectVars, seqVars,
                   recurseVars, callVars, validatorVars>>

ModelNext == CallInit \/ CallLoad \/ PlannerAdvanceGf

ModelSpec == ModelInit /\ [][ModelNext]_vars

----------------------------------------------------------------------------
(* Claims about init and load *)

\* C6: every Data produced by init and load has exactly 16 tissue entries;
\* the Data of init has gf_low and the Data of a load has the gf of the Data
\* it was loaded from; and no call changes a Data produced earlier.
C6_DataImmutable ==
    /\ [](\A i \in DOMAIN store :
            /\ store[i].op \in {"init", "load"} =>
                  Len(store[i].data.tissues) = NUM_COMPARTMENTS
            /\ store[i].op = "init" => store[i].data.gf = gf_low
            /\ store[i].op = "load" =>
                  store[i].data.gf = store[store[i].from].data.gf)
    /\ [][\A i \in DOMAIN store : i \in DOMAIN store' /\ store'[i] = store[i]]_vars

\* A load of a Data whose gf the planner has advanced past gf_low, with the
\* Data of init still in place.
C6_Witness ==
    /\ Len(store) = 3
    /\ store[1] = [data |-> InitData(1013), from |-> 0, op |-> "init"]
    /\ store[2].op = "replace"
    /\ store[3].op = "load" /\ store[3].from = 2
    /\ store[3].data.gf = gf_high
    /\ store[3].data.tissues # store[2].data.tissues

----------------------------------------------------------------------------
(* A single call of load, gf_limit or pressure_limit with arguments of the  *)
(* caller's choosing                                                        *)

\* Tissue vectors of 0, 15, 16 and 17 entries, each at the surface loading,
\* at 3 bar, or all zero.
CallTissues ==
    { [j \in 1..len |-> v] : len \in {0, 15, 16, 17}, v \in {0, 751, 3000} }

\* time arguments of load, in seconds.
CallTimes == {-60, 0, 150}

\* gf arguments of gf_limit and pressure_limit: None, or percent.
CallGfs == {None, Some(0), Some(30), Some(150), Some(151)}

Calls ==
    { [op |-> "load", abs_p |-> 4000, time |-> t, gas |-> 7902, rate |-> 0,
       data |-> Data(ts, 30), gf |-> None] :
          t \in CallTimes, ts \in CallTissues }
    \cup
    { [op |-> o, abs_p |-> 0, time |-> 0, gas |-> 0, rate |-> 0,
       data |-> Data(ts, 30), gf |-> g] :
          o \in {"gf_limit", "pressure_limit"}, ts \in CallTissues, g \in CallGfs }

CallsInit ==
    /\ debug \in BOOLEAN
    /\ variant \in {"B", "C"}
    /\ gf_low = 30
    /\ gf_high = 85
    /\ store = <<>>
    /\ mres = Pending
    /\ call \in Calls
    /\ cpc = "call"
    /\ cres = Pending
    /\ BisectIdle
    /\ SeqIdle
    /\ RecurseIdle
    /\ ValidatorIdle

\* The call runs to its return or to the exception it raises.
CallApply ==
    /\ cpc = "call"
    /\ cpc' = "done"
    /\ cres' = CASE call.op = "load" ->
                      LoadOutcome(call.abs_p, call.time, call.gas, call.rate,
                                  call.data)
                 [] call.op = "gf_limit" -> GfLimitOutcome(call.gf, call.data)
                 [] call.op = "pressure_limit" ->
                      PressureLimitOutcome(call.data, call.gf)
    /\ UNCHANGED <<call, debug, bisectVars, seqVars, recurseVars, modelVars,
                   validatorVars>>

CallsNext == CallApply

CallsSpec == CallsInit /\ [][CallsNext]_vars

\* The call breaks a precondition of its callee.
ViolatesPrecondition(c) ==
    \/ c.op = "load" /\ c.time <= 0
    \/ c.op \in {"gf_limit", "pressure_limit"} /\ c.gf # None /\ ~GfInRange(c.gf[1])
    \/ Len(c.data.tissues) # NUM_COMPARTMENTS

\* C7: a call of load, gf_limit or pressure_limit that breaks a precondition
\* (time <= 0, gf outside (0, 1.5], a tissue vector of other than 16 entries)
\* fails with an error and returns nothing.  Stated here for a build with
\* assertions enabled.
C7_BadArgument ==
    (cpc = "done" /\ debug /\ ViolatesPrecondition(call)) => cres.kind = "raise"

----------------------------------------------------------------------------
(* model.py: DecoModelValidator *)

\* The Data of the steps sent to the validator: the surface loading and the
\* loading after 20 minutes at 4 bar, each under gf_low and under gf_high.
StepDatas ==
    LET d0 == InitData(1013)
        d1 == LoadData(4000, 1200, 7902, 0, d0)
    IN  {d0, d1, Data(d0.tissues, gf_high), Data(d1.tissues, gf_high)}

ValidatorInit ==
    /\ debug \in BOOLEAN
    /\ variant \in {"B", "C"}
    /\ gf_low = 30
    /\ gf_high = 85
    /\ store = <<>>
    /\ mres = Pending
    /\ vpc = "created"
    /\ verdicts = <<>>
    /\ BisectIdle
    /\ SeqIdle
    /\ RecurseIdle
    /\ CallIdle

\* validator(): the coroutine decorator creates the generator and runs it to
\* its first yield.
ValidatorStart ==
    /\ vpc = "created"
    /\ vpc' = "suspended"
    /\ UNCHANGED <<verdicts, debug, bisectVars, seqVars, recurseVars, modelVars,
                   callVars>>

\* The step is rejected: step.pressure < limit.
Rejects(pressure, limit) == pressure < limit

\* send(step) to the suspended generator: one turn of `while True`.  An
\* exception leaves the generator finished.
ValidatorSend ==
    /\ vpc = "suspended"
    /\ Len(verdicts) < MaxSteps
    /\ \E d \in StepDatas, off \in {-1, 0, 1} :
          LET limit == PressureLimitOutcome(d, Some(d.gf))
              pressure == IF limit.kind = "return" THEN limit.value + off ELSE 1013
          IN  IF limit.kind = "raise"
              THEN /\ vpc' = "finished"
                   /\ verdicts' = Append(verdicts,
                          [pressure |-> pressure, data |-> d, limit |-> None,
                           outcome |-> limit.exc])
              ELSE IF Rejects(pressure, limit.value)
              THEN /\ vpc' = "finished"
                   /\ verdicts' = Append(verdicts,
                          [pressure |-> pressure, data |-> d,
                           limit |-> Some(limit.value), outcome |-> "EngineError"])
              ELSE /\ vpc' = "suspended"
                   /\ verdicts' = Append(verdicts,
                          [pressure |-> pressure, data |-> d,
                           limit |-> Some(limit.value), outcome |-> "accepted"])
    /\ UNCHANGED <<debug, bisectVars, seqVars, recurseVars, modelVars, callVars>>

\* send(step) to the finished generator: StopIteration, whatever the step.
ValidatorSendFinished ==
    /\ vpc = "finished"
    /\ Len(verdicts) < MaxSteps
    /\ \E d \in StepDatas, off \in {-1, 0, 1} :
          LET limit == PressureLimitOutcome(d, Some(d.gf))
              pressure == IF limit.kind = "return" THEN limit.value + off ELSE 1013
          IN  verdicts' = Append(verdicts,
                  [pressure |-> pressure, data |-> d,
                   limit |-> IF limit.kind = "return" THEN Some(limit.value) ELSE None,
                   outcome |-> "StopIteration"])
    /\ UNCHANGED <<vpc, debug, bisectVars, seqVars, recurseVars, modelVars, callVars>>

ValidatorNext == ValidatorStart \/ ValidatorSend \/ ValidatorSendFinished

ValidatorSpec == ValidatorInit /\ [][ValidatorNext]_vars

\* C2: each step sent to the validator is rejected with an error if and only
\* if its own pressure is below model.pressure_limit(step.data, step.data.gf),
\* whatever the steps before it.
C2_Stateless ==
    \A i \in DOMAIN verdicts :
        verdicts[i].limit # None =>
            ((verdicts[i].outcome # "accepted")
                <=> (verdicts[i].pressure < verdicts[i].limit[1]))

====
